---- MODULE Spec2Model ----
(***************************************************************************)
(* Model of WMWBillSplitter.py: reading expense lines, the Transaction     *)
(* class, the balance accumulation and the greedy settlement loop of main. *)
(*                                                                         *)
(* Money is a fixed-point integer counted in units of 10^-6 dollar, so a   *)
(* cent is Cent units.  A share is a fixed-point integer counted in        *)
(* units of 1/One.  The decimal context of the program keeps 28 digits;    *)
(* the model keeps 4 fractional digits of a share and 6 of an amount,      *)
(* which is exact for every explicit share of InputLines and turns the     *)
(* binary fractions 1/6 and 1/3 into 0.1667 and 0.3333.  All amounts are   *)
(* USD, so no conversion takes place.                                      *)
(***************************************************************************)
EXTENDS Integers, Sequences, FiniteSets, TLC

VARIABLES pc, transactions, idx, moneyOwed, paymentsToMake, outstanding,
          reported, arg, ret

vars == <<pc, transactions, idx, moneyOwed, paymentsToMake, outstanding,
          reported, arg, ret>>

\* ------------------------------------------------------------------ bounds
\* lines read from the expense files of one run
MaxTx == 2
\* entries of paymentsToMake that are recorded; later iterations of the
\* settlement loop still run but the recorded list stays as it is
MaxPayments == 8

\* --------------------------------------------------------------- constants
\* the quantum of round(.., ndigits=2), in money units
Cent == 10000
\* the share 1 (Decimal('1')), in share units
One == 10000

WildMan == <<"Nishant", "Steve", "Joe", "Elton", "John", "Dim">>

Members == {WildMan[i] : i \in 1..Len(WildMan)}

NumParticipants == Len(WildMan)

\* Money('0','USD')
Zero == 0

\* ----------------------------------------------------------------- helpers
Abs(x) == IF x < 0 THEN -x ELSE x

Min(a, b) == IF b < a THEN b ELSE a

\* round(x, ndigits) of a decimal: to the nearest multiple of q, ties to the
\* even multiple; the result is counted in multiples of q
RoundHalfEven(x, q) ==
  LET lo == x \div q
      r  == x % q
  IN  IF 2 * r < q THEN lo
      ELSE IF 2 * r > q THEN lo + 1
      ELSE IF lo % 2 = 0 THEN lo ELSE lo + 1

\* round(v, ndigits=2) of a Money: the same money rounded to whole cents
Round2(v) == RoundHalfEven(v, Cent) * Cent

\* Decimal.is_zero
IsZero(v) == v = 0

\* the float 1/n as Decimal(1/n), at the model's share precision
FloatRecip(n) == RoundHalfEven(One, n)

\* Decimal(p) * amt for an amount of whole cents (every Transaction.amt is)
DecMul(p, amt) == p * (amt \div One)

\* list.index(x): the first position of x
RECURSIVE IndexFrom(_, _, _)
IndexFrom(s, x, i) ==
  IF i > Len(s) THEN 0
  ELSE IF s[i] = x THEN i
  ELSE IndexFrom(s, x, i + 1)

Index(s, x) == IndexFrom(s, x, 1)

Contains(s, x) == \E i \in 1..Len(s) : s[i] = x

\* ------------------------------------------------------------- Transaction
\* an absent optional argument / an unmatched optional regex group
None == <<>>

\* Transaction.__init__
Transaction(amt, creditor, recipients, split) ==
  [amt        |-> Round2(amt),
   creditor   |-> creditor,
   recipients |-> recipients,
   split      |-> IF split # None THEN split
                  ELSE [i \in 1..Len(recipients) |-> FloatRecip(Len(recipients))]]

\* the outcome of a call: a returned Money or a raised exception
Returned(v) == [raised |-> FALSE, value |-> v]

Raised == [raised |-> TRUE, value |-> 0]

NoCall == [raised |-> FALSE, value |-> 0]

\* obligation with the beneficiary test before the payer test
obligation_RecipientFirst(t, wm) ==
  IF Contains(t.recipients, wm)
  THEN IF Index(t.recipients, wm) <= Len(t.split)
       THEN Returned(-DecMul(t.split[Index(t.recipients, wm)], t.amt))
       ELSE Raised
  ELSE IF t.creditor = wm THEN Returned(t.amt)
  ELSE Returned(Zero)

\* Transaction.obligation
obligation(t, wm) ==
  IF t.creditor = wm THEN Returned(t.amt)
  ELSE IF Contains(t.recipients, wm)
       THEN IF Index(t.recipients, wm) <= Len(t.split)
            THEN Returned(-DecMul(t.split[Index(t.recipients, wm)], t.amt))
            ELSE Raised
       ELSE Returned(Zero)

\* Transaction.__mul__
Mul(t, p) == DecMul(p, t.amt)

\* ------------------------------------------------------------------- input
\* str.capitalize on the payer texts of InputLines
Capitalize(s) ==
  CASE s = "steve" -> "Steve"
    [] s = "nishant" -> "Nishant"
    [] OTHER -> s

AllMembers == WildMan

\* a line of an expense file: whether transaction_rgx matches it, and its
\* groups (amount in thousandths of a dollar, payer, beneficiaries, shares)
Line(amt, creditor, recipients, split) ==
  [matches |-> TRUE, amt |-> amt, creditor |-> creditor,
   recipients |-> recipients, split |-> split]

MalformedLine ==
  [matches |-> FALSE, amt |-> 0, creditor |-> "", recipients |-> None,
   split |-> None]

NSJ == <<"Nishant", "Steve", "Joe">>

InputLines ==
  \* everybody, even split (1/6 each)
     {Line(a, c, None, None) : a \in {14, 10000}, c \in {"Nishant", "steve"}}
  \* everybody, shares 2,1,1,1,1,1
  \cup {Line(10000, "Nishant", None, <<2 * One, One, One, One, One, One>>)}
  \* three beneficiaries with the payer among them, shares 0.5,0.25,0.25
  \cup {Line(a, "Nishant", NSJ, <<5000, 2500, 2500>>) : a \in {10000, 90000}}
  \* the same beneficiaries, even split (1/3 each)
  \cup {Line(10000, "Nishant", NSJ, None)}
  \* the same beneficiaries, shares 0.4,0.3,0.3
  \cup {Line(a, "Nishant", NSJ, <<4000, 3000, 3000>>) : a \in {14, 10000}}
  \* one beneficiary, default share
  \cup {Line(a, "Nishant", <<r>>, None) : a \in {10000, 20000}, r \in {"Steve", "Joe"}}
  \cup {Line(10000, "steve", <<"Joe">>, None)}
  \* one beneficiary who owes half: the shares do not sum to 1
  \cup {Line(10000, "Nishant", <<"Steve">>, <<5000>>)}
  \* fewer shares than beneficiaries
  \cup {Line(10000, "Nishant", <<"Steve", "Joe">>, <<5000>>)}
  \* a beneficiary and a payer outside the registry
  \cup {Line(10000, "Nishant", <<"Steve", "Bob">>, None)}
  \cup {Line(10000, "Bob", <<"Steve">>, None)}
  \cup {MalformedLine}

\* Money(float(text), currency) of an amount given in thousandths
Money(thousandths) == thousandths * (Cent \div 10)

\* readExpenseFiles: the Transaction built from one matching line
ParseLine(line) ==
  Transaction(Money(line.amt), Capitalize(line.creditor),
              IF line.recipients = None THEN AllMembers ELSE line.recipients,
              line.split)

\* ------------------------------------------------------------ accumulation
\* the inner loop without the debit of a payer who is also a beneficiary
RECURSIVE Debit_SkipPayer(_, _, _)
Debit_SkipPayer(m, t, k) ==
  IF k > Min(Len(t.recipients), Len(t.split)) THEN [m |-> m, ok |-> TRUE]
  ELSE IF t.recipients[k] \notin Members THEN [m |-> m, ok |-> FALSE]
  ELSE IF t.recipients[k] = t.creditor THEN Debit_SkipPayer(m, t, k + 1)
  ELSE Debit_SkipPayer([m EXCEPT ![t.recipients[k]] = @ - Mul(t, t.split[k])],
                       t, k + 1)

\* the inner loop of main, lines 117-118, from pair k on; stops at the
\* first beneficiary that is no key of moneyOwed (KeyError)
RECURSIVE Debit(_, _, _)
Debit(m, t, k) ==
  IF k > Min(Len(t.recipients), Len(t.split)) THEN [m |-> m, ok |-> TRUE]
  ELSE IF t.recipients[k] \notin Members THEN [m |-> m, ok |-> FALSE]
  ELSE Debit([m EXCEPT ![t.recipients[k]] = @ - Mul(t, t.split[k])], t, k + 1)

\* one iteration of the loop over transactions, lines 113-118
AccumulateOne(m, t) ==
  IF t.creditor \notin Members THEN [m |-> m, ok |-> FALSE]
  ELSE Debit([m EXCEPT ![t.creditor] = @ + t.amt], t, 1)

\* -------------------------------------------------------------- settlement
\* the loop condition with any() in place of all()
AllSettled_Any(m) == \E w \in Members : IsZero(Round2(m[w]))

\* the loop condition of line 123, negated
AllSettled(m) == \A w \in Members : IsZero(Round2(m[w]))

\* min(moneyOwed.items(), key=...): the first item with the smallest value
RECURSIVE MinFrom(_, _, _)
MinFrom(m, i, best) ==
  IF i > Len(WildMan) THEN best
  ELSE MinFrom(m, i + 1, IF m[WildMan[i]] < m[best] THEN WildMan[i] ELSE best)

biggestDebtor(m) == MinFrom(m, 2, WildMan[1])

\* max(moneyOwed.items(), key=...): the first item with the largest value
RECURSIVE MaxFrom(_, _, _)
MaxFrom(m, i, best) ==
  IF i > Len(WildMan) THEN best
  ELSE MaxFrom(m, i + 1, IF m[WildMan[i]] > m[best] THEN WildMan[i] ELSE best)

\* max that keeps the last of several largest items
biggestCreditor_LastOnTies(m) ==
  WildMan[CHOOSE i \in 1..Len(WildMan) :
            \A j \in 1..Len(WildMan) :
              /\ m[WildMan[i]] >= m[WildMan[j]]
              /\ j > i => m[WildMan[j]] # m[WildMan[i]]]

biggestCreditor(m) == MaxFrom(m, 2, WildMan[1])

\* line 128
SettleAmount(m) == Min(m[biggestCreditor(m)], Abs(m[biggestDebtor(m)]))

\* lines 130-131
Adjust(m) ==
  LET d == biggestDebtor(m)
      c == biggestCreditor(m)
      amt == SettleAmount(m)
      m1 == [m EXCEPT ![d] = m[d] + amt]
  IN  [m1 EXCEPT ![c] = m[c] - amt]

\* line 133
Payment(m) ==
  Transaction(SettleAmount(m), biggestCreditor(m), <<biggestDebtor(m)>>, None)

\* ------------------------------------------------------------------- state
Init ==
  /\ pc = "read"
  /\ transactions = <<>>
  /\ idx = 1
  /\ moneyOwed = [w \in Members |-> Zero]
  /\ paymentsToMake = <<>>
  /\ outstanding = {}
  /\ reported = 0
  /\ arg = ""
  /\ ret = NoCall

\* readExpenseFiles, one line: lines 89-102
ReadLine ==
  /\ pc = "read"
  /\ Len(transactions) < MaxTx
  /\ \E line \in InputLines :
       IF ~line.matches
       THEN /\ reported' = reported + 1
            /\ pc' = "crashed"
            /\ UNCHANGED transactions
       ELSE /\ transactions' = Append(transactions, ParseLine(line))
            /\ UNCHANGED <<pc, reported>>
  /\ UNCHANGED <<idx, moneyOwed, paymentsToMake, outstanding, arg, ret>>

\* readExpenseFiles returns; main builds moneyOwed, line 112
EndOfInput ==
  /\ pc = "read"
  /\ pc' = "accumulate"
  /\ idx' = 1
  /\ moneyOwed' = [w \in Members |-> Zero]
  /\ UNCHANGED <<transactions, paymentsToMake, outstanding, reported, arg, ret>>

\* main, one iteration of the accumulation loop: lines 113-118
Accumulate ==
  /\ pc = "accumulate"
  /\ idx <= Len(transactions)
  /\ LET r == AccumulateOne(moneyOwed, transactions[idx])
     IN  /\ moneyOwed' = r.m
         /\ IF r.ok THEN idx' = idx + 1 /\ pc' = pc
                    ELSE idx' = idx /\ pc' = "crashed"
  /\ UNCHANGED <<transactions, paymentsToMake, outstanding, reported, arg, ret>>

\* main, lines 121-122 (ct is set to 0 and never used again)
StartSettlement ==
  /\ pc = "accumulate"
  /\ idx > Len(transactions)
  /\ pc' = "settle"
  /\ paymentsToMake' = <<>>
  /\ UNCHANGED <<transactions, idx, moneyOwed, outstanding, reported, arg, ret>>

\* main, the test of the settlement loop holds: line 123
EnterLoopBody ==
  /\ pc = "settle"
  /\ ~AllSettled(moneyOwed)
  /\ pc' = "pay"
  /\ UNCHANGED <<transactions, idx, moneyOwed, paymentsToMake, outstanding,
                 reported, arg, ret>>

\* main, the body of the settlement loop: lines 125-133
Settle ==
  /\ pc = "pay"
  /\ IF biggestCreditor(moneyOwed) = biggestDebtor(moneyOwed)
     THEN /\ pc' = "aborted"
          /\ UNCHANGED <<moneyOwed, paymentsToMake>>
     ELSE /\ moneyOwed' = Adjust(moneyOwed)
          /\ paymentsToMake' =
               IF Len(paymentsToMake) < MaxPayments
               THEN Append(paymentsToMake, Payment(moneyOwed))
               ELSE paymentsToMake
          /\ pc' = "settle"
  /\ UNCHANGED <<transactions, idx, outstanding, reported, arg, ret>>

\* main, the test of the settlement loop fails; the summary and the balance
\* check: lines 123, 136-147
PrintSummary ==
  /\ pc = "settle"
  /\ AllSettled(moneyOwed)
  /\ outstanding' = {w \in Members : Round2(moneyOwed[w]) # Zero}
  /\ pc' = "done"
  /\ UNCHANGED <<transactions, idx, moneyOwed, paymentsToMake, reported, arg, ret>>

Next ==
  \/ ReadLine
  \/ EndOfInput
  \/ Accumulate
  \/ StartSettlement
  \/ EnterLoopBody
  \/ Settle
  \/ PrintSummary

Spec == Init /\ [][Next]_vars

\* the program is sequential: whenever a step is possible it is taken
FairSpec == Spec /\ WF_vars(Next)

\* ----------------------------------------- Transaction.obligation, called
\* every Transaction that readExpenseFiles can build from a matching line
BuiltTransactions == {ParseLine(line) : line \in {l \in InputLines : l.matches}}

\* the participants asked about: the registry and one outsider
Asked == Members \cup {"Bob"}

ObligationInit ==
  /\ pc = "call"
  /\ \E t \in BuiltTransactions : transactions = <<t>>
  /\ arg \in Asked
  /\ ret = NoCall
  /\ idx = 1
  /\ moneyOwed = [w \in Members |-> Zero]
  /\ paymentsToMake = <<>>
  /\ outstanding = {}
  /\ reported = 0

CallObligation ==
  /\ pc = "call"
  /\ ret' = obligation(transactions[1], arg)
  /\ pc' = "returned"
  /\ UNCHANGED <<transactions, idx, moneyOwed, paymentsToMake, outstanding,
                 reported, arg>>

ObligationNext == CallObligation

ObligationSpec == ObligationInit /\ [][ObligationNext]_vars

\* ============================================================== properties
\* sum of the balances of all participants
RECURSIVE SumFrom(_, _)
SumFrom(m, i) == IF i > Len(WildMan) THEN 0 ELSE m[WildMan[i]] + SumFrom(m, i + 1)

SumBalances(m) == SumFrom(m, 1)

\* a balance that rounds to 0.00: strictly within half a cent of zero, or
\* exactly half a cent away (the tie goes to the even cent, which is zero)
RoundsToZero(v) == 2 * Abs(v) <= Cent

\* C1 - Settlement correctness: once the settlement loop has finished, the
\* balance of every participant rounds to zero at 2 decimals, and the
\* balance check after the summary reports no outstanding balance.
C1_SettlementCorrect ==
  pc = "done" =>
    /\ \A w \in Members : RoundsToZero(moneyOwed[w])
    /\ outstanding = {}

\* a run that settled a ledger with real debts: payments were made and the
\* loop has finished
C1_Witness ==
  /\ pc = "done"
  /\ Len(paymentsToMake) >= 2
  /\ \E i \in 1..Len(transactions) : transactions[i].amt >= 1000 * Cent

\* ------------------------------------------------------- the ledger rules
\* a Transaction as the data model wants it: payer and beneficiaries in the
\* registry, no beneficiary twice, one share per beneficiary
WellFormed(t) ==
  /\ t.creditor \in Members
  /\ \A i \in 1..Len(t.recipients) : t.recipients[i] \in Members
  /\ \A i, j \in 1..Len(t.recipients) :
       t.recipients[i] = t.recipients[j] => i = j
  /\ Len(t.split) = Len(t.recipients)

\* share * amount in exact arithmetic, for an amount of whole cents (a cent
\* is a whole number of share units of money)
ShareOf(share, amount) == share * (amount \div Cent) * (Cent \div One)

\* what one transaction adds to the balance of w: the amount if w paid,
\* minus w's share of the amount if w is a beneficiary
Contribution(t, w) ==
  LET credit == IF t.creditor = w THEN t.amt ELSE 0
      at == {i \in 1..Len(t.recipients) : t.recipients[i] = w}
      debit == IF at = {} THEN 0
               ELSE ShareOf(t.split[CHOOSE i \in at : TRUE], t.amt)
  IN  credit - debit

\* the balance of w after the first n transactions
RECURSIVE Owed(_, _)
Owed(w, n) ==
  IF n = 0 THEN 0 ELSE Owed(w, n - 1) + Contribution(transactions[n], w)

\* 90.00 paid by Nishant for Nishant, Steve and Joe at 0.5, 0.25, 0.25
Example90 ==
  [amt |-> 9000 * Cent, creditor |-> "Nishant", recipients |-> NSJ,
   split |-> <<5000, 2500, 2500>>]

\* C6 - Accumulation rule: during and after the accumulation loop, when the
\* transactions processed so far are well formed, every balance is the sum
\* over them of (amount if payer) minus (share * amount if beneficiary);
\* the 90.00 example alone leaves +45.00, -22.50, -22.50 and zero elsewhere.
C6_AccumulationRule ==
  pc = "accumulate" =>
    /\ (\A j \in 1..(idx - 1) : WellFormed(transactions[j])) =>
         \A w \in Members : moneyOwed[w] = Owed(w, idx - 1)
    /\ (idx = 2 /\ transactions[1] = Example90) =>
         moneyOwed = [w \in Members |->
                        CASE w = "Nishant" -> 4500 * Cent
                          [] w \in {"Steve", "Joe"} -> -2250 * Cent
                          [] OTHER -> 0]

\* the 90.00 example has been accumulated, followed by a second transaction
C6_Witness ==
  /\ pc = "accumulate"
  /\ idx = 3
  /\ transactions[1] = Example90
  /\ WellFormed(transactions[2])
  /\ moneyOwed["Nishant"] > 4500 * Cent

\* C4 - Conservation: after the accumulation loop the balances of all
\* participants sum to an amount that rounds to zero at 2 decimals.
C4_Conservation ==
  pc \in {"settle", "pay", "done", "aborted"} =>
    RoundsToZero(SumBalances(moneyOwed))

\* --------------------------------------------------- the settlement rules
\* C2 - Minimality bound: paymentsToMake never holds more than
\* participant_count - 1 payments.
C2_MinimalityBound == Len(paymentsToMake) <= NumParticipants - 1

\* C3 - Termination: once the settlement loop is entered it eventually
\* exits (the loop ends or the assertion stops the run).
C3_Termination == (pc \in {"settle", "pay"}) ~> (pc \in {"done", "aborted"})

\* C5 - Internal-consistency error: the loop never runs more than
\* participant_count iterations, and a run whose ledger is not conservative
\* never ends with a payment list.
C5_AbortsOnInconsistency ==
  /\ Len(paymentsToMake) <= NumParticipants
  /\ pc = "done" => RoundsToZero(SumBalances(moneyOwed))

\* C10 - every recorded settlement payment has a strictly positive amount.
C10_PositivePayments ==
  \A i \in 1..Len(paymentsToMake) : paymentsToMake[i].amt > 0

\* C8 - Skip and continue: a bad line never stops the run, and no
\* transaction built from a bad line is kept.
C8_SkipAndContinue ==
  /\ pc # "crashed"
  /\ \A i \in 1..Len(transactions) : WellFormed(transactions[i])

\* position i holds the smallest balance and no earlier position ties
FirstSmallest(m, i) ==
  \A j \in 1..Len(WildMan) :
    /\ m[WildMan[i]] <= m[WildMan[j]]
    /\ j < i => m[WildMan[j]] # m[WildMan[i]]

\* position i holds the largest balance and no earlier position ties
FirstLargest(m, i) ==
  \A j \in 1..Len(WildMan) :
    /\ m[WildMan[i]] >= m[WildMan[j]]
    /\ j < i => m[WildMan[j]] # m[WildMan[i]]

\* r is a whole number of cents nearest to a, the even one on a tie
NearestCent(a, r) ==
  /\ r % Cent = 0
  /\ 2 * Abs(a - r) <= Cent
  /\ 2 * Abs(a - r) = Cent => (r \div Cent) % 2 = 0

SameAmount(a, r) == r = a

\* the body of the settlement loop when it goes on: first-smallest debtor,
\* first-largest creditor, amount min(creditor, |debtor|) moved, and a
\* payment to the creditor from the debtor recorded with an amount that
\* Recorded relates to the amount moved
GreedyStep(Recorded(_, _)) ==
  (pc = "pay" /\ pc' = "settle") =>
    \E d, c \in 1..Len(WildMan) :
      LET a == IF moneyOwed[WildMan[c]] <= Abs(moneyOwed[WildMan[d]])
               THEN moneyOwed[WildMan[c]] ELSE Abs(moneyOwed[WildMan[d]])
      IN  /\ FirstSmallest(moneyOwed, d)
          /\ FirstLargest(moneyOwed, c)
          /\ d # c
          /\ moneyOwed' = [moneyOwed EXCEPT ![WildMan[d]] = @ + a,
                                            ![WildMan[c]] = @ - a]
          /\ Len(paymentsToMake) < MaxPayments =>
               /\ Len(paymentsToMake') = Len(paymentsToMake) + 1
               /\ SubSeq(paymentsToMake', 1, Len(paymentsToMake)) = paymentsToMake
               /\ LET p == paymentsToMake'[Len(paymentsToMake')]
                  IN  /\ p.creditor = WildMan[c]
                      /\ p.recipients = <<WildMan[d]>>
                      /\ p.split = <<One>>
                      /\ Recorded(a, p.amt)

\* the balances before settlement are Nishant +30, Steve -10, Joe -20
Example30 ==
  /\ \A j \in 1..Len(transactions) : WellFormed(transactions[j])
  /\ \A w \in Members :
       Owed(w, Len(transactions)) =
         CASE w = "Nishant" -> 3000 * Cent
           [] w = "Steve" -> -1000 * Cent
           [] w = "Joe" -> -2000 * Cent
           [] OTHER -> 0

\* the settlement of Example30: Joe pays Nishant 20, then Steve pays
\* Nishant 10, and every balance is zero
Example30Settled ==
  (pc = "done" /\ Example30) =>
    /\ paymentsToMake =
         <<[amt |-> 2000 * Cent, creditor |-> "Nishant",
            recipients |-> <<"Joe">>, split |-> <<One>>],
           [amt |-> 1000 * Cent, creditor |-> "Nishant",
            recipients |-> <<"Steve">>, split |-> <<One>>]>>
    /\ \A w \in Members : moneyOwed[w] = 0

\* C7 as stated - Greedy settlement sequence, the recorded payment carrying
\* exactly the amount moved.
C7_GreedyExactAmount == [][GreedyStep(SameAmount)]_vars /\ []Example30Settled

\* C7 - Greedy settlement sequence: each iteration takes the first
\* participant with the smallest balance as debtor and the first with the
\* largest balance as creditor, moves min(creditor, |debtor|) between them
\* and appends a payment (payer = creditor, beneficiaries = [debtor]) whose
\* amount is the amount moved rounded to 2 decimals; +30, -10, -20 settles
\* as Joe pays Nishant 20, then Steve pays Nishant 10.
C7_GreedySettlement == [][GreedyStep(NearestCent)]_vars /\ []Example30Settled

\* the +30, -10, -20 ledger has been settled with two payments
C7_Witness ==
  /\ pc = "done"
  /\ Example30
  /\ Len(paymentsToMake) = 2

\* ------------------------------------------------- Transaction.obligation
\* C9 - obligation(wm) returns +amount for the payer (beneficiary or not),
\* -(share * amount) for a beneficiary that is not the payer and has a
\* share, and 0 for anybody else; for the 90.00 example +90.00 for
\* Nishant and -22.50 for Steve and for Joe.
C9_Obligation ==
  pc = "returned" =>
    LET t == transactions[1]
        at == {i \in 1..Len(t.recipients) : t.recipients[i] = arg}
    IN  /\ arg = t.creditor => ret = [raised |-> FALSE, value |-> t.amt]
        /\ (arg # t.creditor /\ at = {}) => ret = [raised |-> FALSE, value |-> 0]
        /\ \A i \in at :
             (arg # t.creditor /\ i <= Len(t.split)) =>
               ret = [raised |-> FALSE, value |-> -ShareOf(t.split[i], t.amt)]
        /\ t = Example90 =>
             ret.value = CASE arg = "Nishant" -> 9000 * Cent
                           [] arg \in {"Steve", "Joe"} -> -2250 * Cent
                           [] OTHER -> 0

\* obligation has been asked for Steve in the 90.00 example
C9_Witness ==
  /\ pc = "returned"
  /\ transactions[1] = Example90
  /\ arg = "Steve"
  /\ ret = [raised |-> FALSE, value |-> -2250 * Cent]

====
